---- MODULE Spec2Model ----
(***************************************************************************)
(* Verification model of the core of solana_swarm:                         *)
(*   - the swarm consensus round   (core/swarm_agent.py, core/consensus.py)*)
(*   - the RPC gateway             (core/solana_integration.py)            *)
(*   - the market data aggregator  (core/market_data.py)                   *)
(* Confidences and thresholds are integers in hundredths (0.7 is 70);      *)
(* a ratio is kept as a pair num/den and compared by cross-multiplication. *)
(***************************************************************************)
EXTENDS Integers, Sequences, FiniteSets, TLC

VARIABLES
    \* ---- swarm (SwarmAgent) ----
    min_confidence,   \* [Agents -> hundredths]   SwarmConfig.min_confidence
    min_votes,        \* [Agents -> Nat]          SwarmConfig.min_votes
    swarm_peers,      \* [Agents -> Seq(Agents)]  SwarmAgent.swarm_peers
    is_initialized,   \* [Agents -> BOOLEAN]      SwarmAgent._is_initialized
    is_running,       \* [Agents -> BOOLEAN]      SwarmAgent._is_running
    round,            \* the propose_action call in flight (its loop position)
    result,           \* what the last completed swarm operation returned
    joins,            \* join_swarm calls the behaviour may still make (bounded)
    \* ---- RPC gateway (SolanaConnection) ----
    now,              \* time.time(), in ticks of 1/TicksPerSec second
    request_count,    \* SolanaConnection._request_count
    request_window_start,  \* SolanaConnection._request_window_start
    callers,          \* coroutines inside _rate_limit: [pc, wake]
    admitted,         \* the times at which a _rate_limit call returned
    inv,              \* the _execute_with_retry call in flight and its RPC log
    \* ---- market data (MarketDataManager) ----
    mnow,             \* datetime.now(), in seconds
    cache,            \* MarketDataManager.cache, by symbol
    mcall,            \* the get_token_price call in flight
    mresult,          \* what the last completed get_token_price call did
    overview,         \* the get_market_overview call in flight and its result
    \* ---- connection health (SolanaConnection.health_check) ----
    health,           \* clock, _is_connected, _last_health_check, calls, probes
    \* ---- asset guardian (AssetGuardian) ----
    guardian,         \* settings, active_strategies, the strategy in the making
    \* ---- Jupiter client (JupiterClient) ----
    jupiter,          \* session, the sessions created, the calls in flight
    \* ---- consensus manager (ConsensusManager) ----
    manager           \* thresholds, votes by proposal id, the last result

swarmVars == <<min_confidence, min_votes, swarm_peers, is_initialized,
               is_running, round, result, joins>>

gatewayVars == <<now, request_count, request_window_start, callers, admitted,
                 inv>>

marketVars == <<mnow, cache, mcall, mresult, overview>>

serviceVars == <<health, guardian, jupiter, manager>>

coreVars == <<swarmVars, gatewayVars, marketVars>>

vars == <<coreVars, serviceVars>>

(***************************************************************************)
(* Bounds of the model                                                     *)
(***************************************************************************)
MaxJoins == 1          \* join_swarm calls in one behaviour
MaxTopologyJoins == 2  \* join_swarm calls when only the topology is observed
MaxRoundJoins == 2     \* join_swarm calls around one observed round
MaxPeers == 2          \* peers asked by a round that runs without interleaving

Agents == {"a1", "a2", "a3"}
\* min_confidence values a SwarmConfig is built with (0.7 is the default)
MinConfValues == {50, 70}
\* min_votes values a SwarmConfig is built with (2 is the default)
MinVotesValues == {1, 2}
\* confidences an evaluation may report (hundredths)
ConfValues == {30, 60, 85}

(***************************************************************************)
(* Helpers                                                                 *)
(***************************************************************************)
Range(s) == {s[i] : i \in 1..Len(s)}

RECURSIVE SumConf(_)
SumConf(vs) == IF vs = <<>> THEN 0 ELSE vs[1].confidence + SumConf(Tail(vs))

RECURSIVE SelectVotes(_, _)
SelectVotes(vs, d) ==
    IF vs = <<>> THEN <<>>
    ELSE IF vs[1].decision = d THEN <<vs[1]>> \o SelectVotes(Tail(vs), d)
         ELSE SelectVotes(Tail(vs), d)

CountApprove(vs) == Len(SelectVotes(vs, "approve"))

\* rate >= pct/100, rate a pair num/den with den > 0
RateGE(rate, pct) == rate.num * 100 >= pct * rate.den
RateEq(r1, r2) == r1.num * r2.den = r2.num * r1.den

\* the lists handed to join_swarm: no, one or two peers, in any order,
\* the caller itself and repeated peers included
PeerLists ==
    {<<>>} \cup {<<a>> : a \in Agents} \cup {<<a, b>> : a, b \in Agents}

(***************************************************************************)
(* SwarmConfig defaults                                                    *)
(***************************************************************************)
Timeout == 1               \* SwarmConfig.timeout (seconds)
AbstainThreshold == 40     \* evaluate_proposal: confidence >= 0.4 abstains

\* a round is observed until one second past its timeout
MaxElapsed == Timeout + 1

(***************************************************************************)
(* SwarmAgent.evaluate_proposal                                            *)
(*   res is what self.evaluate(context) did: raised, returned a mapping    *)
(*   with an "error" key, or returned a mapping with a confidence.         *)
(***************************************************************************)
EvalResults ==
    {[kind |-> "raise", confidence |-> 0], [kind |-> "error", confidence |-> 0]}
    \cup {[kind |-> "ok", confidence |-> c] : c \in ConfValues}

Vote(peer, d, c, why) ==
    [voter |-> peer, decision |-> d, confidence |-> c, reasoning |-> why]

\* mutant: a confidence equal to min_confidence does not approve
evaluate_proposal_strict(peer, res) ==
    IF ~is_running[peer] THEN Vote(peer, "reject", 0, "not running")
    ELSE IF res.kind = "raise" THEN Vote(peer, "reject", 0, "evaluation failed")
    ELSE IF res.kind = "error" THEN Vote(peer, "reject", 0, "evaluation error")
    ELSE Vote(peer,
              IF res.confidence > min_confidence[peer] THEN "approve"
              ELSE IF res.confidence >= AbstainThreshold THEN "abstain"
              ELSE "reject",
              res.confidence, "ok")

\* mutant: the except clause is missing, the exception escapes to the caller
evaluate_proposal_noexcept(peer, res) ==
    IF ~is_running[peer] THEN Vote(peer, "reject", 0, "not running")
    ELSE IF res.kind = "raise" THEN [raised |-> TRUE, voter |-> peer]
    ELSE IF res.kind = "error" THEN Vote(peer, "reject", 0, "evaluation error")
    ELSE Vote(peer,
              IF res.confidence >= min_confidence[peer] THEN "approve"
              ELSE IF res.confidence >= AbstainThreshold THEN "abstain"
              ELSE "reject",
              res.confidence, "ok")

evaluate_proposal(peer, res) ==
    IF ~is_running[peer] THEN Vote(peer, "reject", 0, "not running")
    ELSE IF res.kind = "raise" THEN Vote(peer, "reject", 0, "evaluation failed")
    ELSE IF res.kind = "error" THEN Vote(peer, "reject", 0, "evaluation error")
    ELSE Vote(peer,
              IF res.confidence >= min_confidence[peer] THEN "approve"
              ELSE IF res.confidence >= AbstainThreshold THEN "abstain"
              ELSE "reject",
              res.confidence, "ok")

(***************************************************************************)
(* SwarmAgent.propose_action, the aggregation after the loop               *)
(***************************************************************************)
\* mutant: the min_votes condition is dropped
Consensus_nominvotes(rate, positive, p) == RateGE(rate, min_confidence[p])

Consensus(rate, positive, p) ==
    RateGE(rate, min_confidence[p]) /\ positive >= min_votes[p]

\* mutant: the rate is decided by the vote that arrived first
ApprovalRate_firstvote(votes) ==
    IF Len(votes) > 0
    THEN [num |-> IF votes[1].decision = "approve" THEN Len(votes) ELSE 0,
          den |-> Len(votes)]
    ELSE [num |-> 0, den |-> 1]

ApprovalRate(votes) ==
    IF Len(votes) > 0 THEN [num |-> CountApprove(votes), den |-> Len(votes)]
    ELSE [num |-> 0, den |-> 1]

\* asked and evals are observations for the properties, not part of the
\* returned mapping: the list the loop iterated and what each evaluate did
Outcome(p, votes, asked, evals) ==
    LET total_votes == Len(votes)
        positive_votes == CountApprove(votes)
        approval_rate == ApprovalRate(votes)
    IN  [kind |-> "outcome",
         proposer |-> p,
         consensus |-> Consensus(approval_rate, positive_votes, p),
         approval_rate |-> approval_rate,
         total_votes |-> total_votes,
         votes |-> votes,
         reasons |-> [i \in 1..Len(votes) |-> votes[i].reasoning],
         asked |-> asked,
         evals |-> evals]

NoRound == [status |-> "idle"]
NoResult == [kind |-> "none"]

(***************************************************************************)
(* Swarm operations                                                        *)
(***************************************************************************)
\* every agent of a swarm is constructed from the same thresholds
SwarmInitWith(mc, mv, budget) ==
    /\ min_confidence = [a \in Agents |-> mc]
    /\ min_votes = [a \in Agents |-> mv]
    /\ swarm_peers = [a \in Agents |-> <<>>]
    /\ is_initialized = [a \in Agents |-> FALSE]
    /\ is_running = [a \in Agents |-> FALSE]
    /\ round = NoRound
    /\ result = NoResult
    /\ joins = budget

SwarmInit(mc, mv) == SwarmInitWith(mc, mv, MaxJoins)

\* SwarmAgent.initialize
initialize(a) ==
    /\ ~is_initialized[a]
    /\ is_initialized' = [is_initialized EXCEPT ![a] = TRUE]
    /\ is_running' = [is_running EXCEPT ![a] = TRUE]
    /\ result' = NoResult
    /\ UNCHANGED <<gatewayVars, marketVars, serviceVars>>
    /\ UNCHANGED <<min_confidence, min_votes, swarm_peers, round, joins>>

\* the list object the running loop of propose_action iterates is the
\* proposer's swarm_peers list until that attribute is rebound
Rebind(a) ==
    IF round.status = "collecting" /\ round.proposer = a
    THEN [round EXCEPT !.live = FALSE] ELSE round

\* SwarmAgent.cleanup
cleanup(a) ==
    /\ is_running' = [is_running EXCEPT ![a] = FALSE]
    /\ swarm_peers' = [swarm_peers EXCEPT ![a] = <<>>]
    /\ round' = Rebind(a)
    /\ result' = NoResult
    /\ UNCHANGED <<gatewayVars, marketVars, serviceVars>>
    /\ UNCHANGED <<min_confidence, min_votes, is_initialized, joins>>

\* mutant: the peers are not told about the joining agent
JoinedPeers_oneway(a, peers) ==
    [q \in Agents |-> IF q = a THEN peers ELSE swarm_peers[q]]

\* SwarmAgent.join_swarm
JoinedPeers(a, peers) ==
    [q \in Agents |->
        IF q = a THEN peers
        ELSE IF q \in Range(peers) /\ a \notin Range(swarm_peers[q])
             THEN Append(swarm_peers[q], a)
             ELSE swarm_peers[q]]

join_swarm(a, peers) ==
    /\ joins > 0
    /\ joins' = joins - 1
    /\ swarm_peers' = JoinedPeers(a, peers)
    /\ round' =
         IF round.status # "collecting" THEN round
         ELSE IF round.proposer = a THEN [round EXCEPT !.live = FALSE]
         ELSE IF round.live
              THEN [round EXCEPT !.iter = JoinedPeers(a, peers)[round.proposer]]
              ELSE round
    /\ result' = NoResult
    /\ UNCHANGED <<gatewayVars, marketVars, serviceVars>>
    /\ UNCHANGED <<min_confidence, min_votes, is_initialized, is_running>>

\* SwarmAgent.propose_action up to the first peer evaluation it awaits
propose_action(p) ==
    /\ round.status = "idle"
    /\ IF ~is_running[p]
       THEN /\ result' = [kind |-> "raised", proposer |-> p,
                          error |-> "Agent is not running"]
            /\ round' = round
       ELSE IF swarm_peers[p] = <<>>
       THEN /\ result' = Outcome(p, <<>>, <<>>, <<>>)
            /\ round' = round
       ELSE /\ round' = [status |-> "collecting", proposer |-> p,
                         iter |-> swarm_peers[p], live |-> TRUE,
                         votes |-> <<>>, evals |-> <<>>, elapsed |-> 0]
            /\ result' = NoResult
    /\ UNCHANGED <<gatewayVars, marketVars, serviceVars>>
    /\ UNCHANGED <<min_confidence, min_votes, swarm_peers, is_initialized,
                   is_running, joins>>

\* the awaited peer.evaluate_proposal(proposal) completes; after the last
\* peer of the list the aggregation runs and propose_action returns
PeerAnswers(res) ==
    /\ round.status = "collecting"
    /\ LET peer == round.iter[Len(round.votes) + 1]
           vote == evaluate_proposal(peer, res)
           votes == Append(round.votes, vote)
           evals == Append(round.evals,
                           IF is_running[peer] THEN res.kind ELSE "not asked")
       IN  IF "raised" \in DOMAIN vote
           THEN /\ result' = [kind |-> "raised", proposer |-> round.proposer,
                              error |-> "peer evaluation raised"]
                /\ round' = NoRound
           ELSE IF Len(votes) < Len(round.iter)
           THEN /\ round' = [round EXCEPT !.votes = votes, !.evals = evals]
                /\ result' = result
           ELSE /\ result' = Outcome(round.proposer, votes, round.iter, evals)
                /\ round' = NoRound
    /\ UNCHANGED <<gatewayVars, marketVars, serviceVars>>
    /\ UNCHANGED <<min_confidence, min_votes, swarm_peers, is_initialized,
                   is_running, joins>>

\* a second passes while the round waits for a peer
RoundTick ==
    /\ round.status = "collecting"
    /\ round.elapsed < MaxElapsed
    /\ round' = [round EXCEPT !.elapsed = @ + 1]
    /\ UNCHANGED <<gatewayVars, marketVars, serviceVars>>
    /\ UNCHANGED <<min_confidence, min_votes, swarm_peers, is_initialized,
                   is_running, result, joins>>

SwarmNext ==
    \/ \E a \in Agents : initialize(a)
    \/ \E a \in Agents, peers \in PeerLists : join_swarm(a, peers)
    \/ \E p \in Agents : propose_action(p)
    \/ \E res \in EvalResults : PeerAnswers(res)
    \/ RoundTick

\* SwarmAgent.evaluate of an agent without an LLM: the basic response
NoLlmConfidence == 60

\* mutant: the basic response is a confident one
evaluate_nollm_confident == [kind |-> "ok", confidence |-> 85]

evaluate_nollm == [kind |-> "ok", confidence |-> NoLlmConfidence]

\* thresholds above the confidence of the basic response
NoLlmMinConfValues == {70, 80}

NoLlmNext ==
    \/ \E a \in Agents : initialize(a)
    \/ \E a \in Agents, peers \in PeerLists : join_swarm(a, peers)
    \/ \E p \in Agents : propose_action(p)
    \/ PeerAnswers(evaluate_nollm)
    \/ RoundTick

\* thresholds and confidences around the two boundaries of the vote mapping
\* (SwarmConfig accepts any min_confidence from 0 to 1)
VoteMinConfValues == {30, 50, 70}
VoteEvalResults ==
    {[kind |-> "raise", confidence |-> 0], [kind |-> "error", confidence |-> 0]}
    \cup {[kind |-> "ok", confidence |-> c] :
             c \in {0, 30, 39, 40, 50, 69, 70, 100}}

\* one call of peer.evaluate_proposal(proposal) whose self.evaluate did res
evaluate_proposal_call(peer, res) ==
    /\ round.status = "idle"
    /\ result' = [kind |-> "vote", running |-> is_running[peer], res |-> res,
                  vote |-> evaluate_proposal(peer, res)]
    /\ UNCHANGED <<gatewayVars, marketVars, serviceVars>>
    /\ UNCHANGED <<min_confidence, min_votes, swarm_peers, is_initialized,
                   is_running, round, joins>>

VoteNext ==
    \/ \E a \in Agents : initialize(a)
    \/ \E peer \in Agents, res \in VoteEvalResults :
          evaluate_proposal_call(peer, res)

\* the life of agents outside rounds: started, joined, cleaned up
LifecycleNext ==
    \/ \E a \in Agents : initialize(a)
    \/ \E a \in Agents, peers \in PeerLists : join_swarm(a, peers)
    \/ \E a \in Agents : cleanup(a)

\* propose_action run from its first line to its return with nothing
\* interleaved: the i-th peer's evaluate did ress[i], then the votes are
\* aggregated
PeerSeqs == UNION {[1..n -> Agents] : n \in 0..MaxPeers}
EvalSeqs == UNION {[1..n -> EvalResults] : n \in 0..MaxPeers}

propose_action_whole(p, ress) ==
    /\ result = NoResult
    /\ round.status = "idle"
    /\ is_running[p]
    /\ Len(swarm_peers[p]) = Len(ress)
    /\ LET peers == swarm_peers[p]
           votes == [i \in 1..Len(peers) |->
                        evaluate_proposal(peers[i], ress[i])]
           evals == [i \in 1..Len(peers) |->
                        IF is_running[peers[i]] THEN ress[i].kind
                        ELSE "not asked"]
       IN  result' = Outcome(p, votes, peers, evals)
    /\ UNCHANGED <<gatewayVars, marketVars, serviceVars>>
    /\ UNCHANGED <<min_confidence, min_votes, swarm_peers, is_initialized,
                   is_running, round, joins>>

AggregateNext ==
    \/ \E a \in Agents : initialize(a)
    \/ \E p \in Agents, ress \in EvalSeqs : propose_action_whole(p, ress)

\* rounds with joins around and inside them, time not observed
RoundJoinsNext ==
    \/ \E a \in Agents : initialize(a)
    \/ \E a \in Agents, peers \in PeerLists : join_swarm(a, peers)
    \/ \E p \in Agents : propose_action(p)
    \/ \E res \in EvalResults : PeerAnswers(res)

\* the peer topology alone: agents join and leave, nobody proposes
TopologyNext ==
    \/ \E a \in Agents, peers \in PeerLists : join_swarm(a, peers)
    \/ \E a \in Agents : cleanup(a)

(***************************************************************************)
(* RPC gateway: SolanaConnection._rate_limit                               *)
(***************************************************************************)
TicksPerSec == 2           \* model ticks per second
MaxTime == 4               \* ticks observed by the rate limiter model
RequestsPerSecond == 2     \* SolanaConfig.requests_per_second of the model
Callers == {"c1", "c2", "c3"}

\* "Reset window if needed"
WindowAfterReset ==
    IF now - request_window_start >= TicksPerSec
    THEN [count |-> 0, start |-> now]
    ELSE [count |-> request_count, start |-> request_window_start]

SleepTime(w) == TicksPerSec - (now - w.start)

MustSleep(w) == w.count >= RequestsPerSecond /\ SleepTime(w) > 0

\* _rate_limit up to its await: let through (count += 1) or about to sleep
RateLimitPass(w) ==
    /\ ~MustSleep(w)
    /\ request_count' = w.count + 1
    /\ request_window_start' = w.start

RateLimitSleep(w) ==
    /\ MustSleep(w)
    /\ request_count' = w.count
    /\ request_window_start' = w.start

\* _rate_limit after asyncio.sleep(sleep_time)
RateLimitResume ==
    /\ request_count' = 0 + 1
    /\ request_window_start' = now

GatewayInit(t0) ==
    /\ now = t0
    /\ request_count = 0
    /\ request_window_start = t0
    /\ callers = [c \in Callers |-> [pc |-> "ready", wake |-> 0]]
    /\ admitted = <<>>
    /\ inv = [pc |-> "idle"]

\* a coroutine calls _rate_limit before an attempt
RateLimitEnter(c) ==
    /\ callers[c].pc = "ready"
    /\ LET w == WindowAfterReset IN
         \/ /\ RateLimitPass(w)
            /\ admitted' = Append(admitted, now)
            /\ UNCHANGED callers
         \/ /\ RateLimitSleep(w)
            /\ callers' = [callers EXCEPT
                             ![c] = [pc |-> "sleeping", wake |-> now + SleepTime(w)]]
            /\ UNCHANGED admitted
    /\ UNCHANGED <<now, inv>>
    /\ UNCHANGED <<swarmVars, marketVars, serviceVars>>

RateLimitWake(c) ==
    /\ callers[c].pc = "sleeping"
    /\ now >= callers[c].wake
    /\ RateLimitResume
    /\ admitted' = Append(admitted, now)
    /\ callers' = [callers EXCEPT ![c] = [pc |-> "ready", wake |-> 0]]
    /\ UNCHANGED <<now, inv>>
    /\ UNCHANGED <<swarmVars, marketVars, serviceVars>>

RateTick ==
    /\ now < MaxTime
    /\ now' = now + 1
    /\ UNCHANGED <<request_count, request_window_start, callers, admitted, inv>>
    /\ UNCHANGED <<swarmVars, marketVars, serviceVars>>

RateNext ==
    \/ \E c \in Callers : RateLimitEnter(c)
    \/ \E c \in Callers : RateLimitWake(c)
    \/ RateTick

(***************************************************************************)
(* RPC gateway: SolanaConnection._execute_with_retry and its callers       *)
(***************************************************************************)
NumBackups == 1            \* len(SolanaConfig.backup_rpcs) of the model
RetryMaxTime == 8          \* ticks observed by the retry model
MaxRetries == 3            \* SolanaConfig.max_retries

\* clients = [self.client] + self.backup_clients, by index
LastClient == NumBackups

RECURSIVE Pow2(_)
Pow2(n) == IF n = 0 THEN 1 ELSE 2 * Pow2(n - 1)

Ops == {"get_balance", "get_token_balance", "send_transaction"}

\* what func(client) can do, by operation.  _send_transaction first awaits
\* client.get_latest_blockhash(), signs, then awaits client.send_transaction;
\* for _get_token_balance the outcome is that of the query it awaits
FuncOutcomes(op) ==
    IF op = "send_transaction"
    THEN {"blockhash_error", "send_ok", "send_rpc_error", "send_timeout"}
    ELSE IF op = "get_token_balance"
    THEN {"token_ok", "token_rpc_error", "token_timeout"}
    ELSE {"ok", "rpc_error", "timeout"}

\* the RPC methods one call of func issues on its client
RpcCalls(op, outcome) ==
    IF op = "send_transaction"
    THEN IF outcome = "blockhash_error" THEN <<"getLatestBlockhash">>
         ELSE <<"getLatestBlockhash", "sendTransaction">>
    ELSE IF op = "get_token_balance" THEN <<"getTokenAccountBalance">>
    ELSE <<"getBalance">>

\* func(client) returned instead of raising.  _get_token_balance catches
\* every exception of its query itself and returns
Succeeds(outcome) ==
    outcome \in {"ok", "send_ok", "token_ok", "token_rpc_error", "token_timeout"}

LamportsPerSol == 1000000000   \* Decimal(10**9) of _get_balance

\* what the node answers a successful call with: response.value, the
\* lamports of getBalance or the signature of sendTransaction
LamportValues == {0, 1500000000}

\* response.value of getTokenAccountBalance: None, or an amount in base
\* units with the mint's decimals
NoTokenAmount == [present |-> FALSE, amount |-> 0, decimals |-> 0]
TokenAmounts ==
    {NoTokenAmount,
     [present |-> TRUE, amount |-> 0, decimals |-> 6],
     [present |-> TRUE, amount |-> 2500000, decimals |-> 6]}

RECURSIVE Pow10(_)
Pow10(n) == IF n = 0 THEN 1 ELSE 10 * Pow10(n - 1)

Responses(op, outcome) ==
    IF op = "get_balance" THEN LamportValues
    ELSE IF op = "get_token_balance"
    THEN IF outcome = "token_ok" THEN TokenAmounts ELSE {NoTokenAmount}
    ELSE {"sig"}

\* what func returns for that answer.  Decimal(lamports) / Decimal(10**9) is
\* exact: the SOL amount is kept as whole SOL and billionths; a token
\* amount as whole tokens and base units
FuncResult(op, resp) ==
    IF op = "get_balance"
    THEN [sol |-> resp \div LamportsPerSol, nano |-> resp % LamportsPerSol]
    ELSE IF op = "get_token_balance"
    THEN IF resp.present
         THEN [tokens |-> resp.amount \div Pow10(resp.decimals),
               units |-> resp.amount % Pow10(resp.decimals)]
         ELSE [tokens |-> 0, units |-> 0]
    ELSE [signature |-> resp]

LogEntries(client, cycle, methods) ==
    [i \in 1..Len(methods) |->
        [client |-> client, cycle |-> cycle, method |-> methods[i], at |-> now]]

\* a public operation calls _execute_with_retry(func)
execute_with_retry(op) ==
    /\ inv.pc \in {"idle", "returned", "raised"}
    /\ inv' = [pc |-> "rate_limit", op |-> op, attempt |-> 0, client |-> 0,
               wake |-> 0, last_exception |-> "none", log |-> <<>>,
               calls |-> <<>>, value |-> "none"]
    /\ UNCHANGED <<now, request_count, request_window_start, callers, admitted>>
    /\ UNCHANGED <<swarmVars, marketVars, serviceVars>>

\* await self._rate_limit() of the current attempt
RetryRateLimit ==
    /\ inv.pc = "rate_limit"
    /\ LET w == WindowAfterReset IN
         \/ RateLimitPass(w) /\ inv' = [inv EXCEPT !.pc = "call"]
         \/ /\ RateLimitSleep(w)
            /\ inv' = [inv EXCEPT !.pc = "rate_sleep", !.wake = now + SleepTime(w)]
    /\ UNCHANGED <<now, callers, admitted>>
    /\ UNCHANGED <<swarmVars, marketVars, serviceVars>>

RetryRateWake ==
    /\ inv.pc = "rate_sleep"
    /\ now >= inv.wake
    /\ RateLimitResume
    /\ inv' = [inv EXCEPT !.pc = "call"]
    /\ UNCHANGED <<now, callers, admitted>>
    /\ UNCHANGED <<swarmVars, marketVars, serviceVars>>

\* mutant: the sleep between cycles does not grow
AfterFailure_fixedbackoff(e, log) ==
    IF inv.client < LastClient
    THEN [inv EXCEPT !.pc = "rate_limit", !.client = @ + 1,
                     !.last_exception = e, !.log = log]
    ELSE IF inv.attempt < MaxRetries - 1
    THEN [inv EXCEPT !.pc = "backoff", !.last_exception = e, !.log = log,
                     !.wake = now + TicksPerSec]
    ELSE [inv EXCEPT !.pc = "raised", !.last_exception = e, !.log = log]

\* mutant: a failure ends the cycle, the remaining clients are skipped
AfterFailure_skipbackups(e, log) ==
    IF inv.attempt < MaxRetries - 1
    THEN [inv EXCEPT !.pc = "backoff", !.last_exception = e, !.log = log,
                     !.wake = now + Pow2(inv.attempt) * TicksPerSec]
    ELSE [inv EXCEPT !.pc = "raised", !.last_exception = e, !.log = log]

\* mutant: last_exception keeps the first error instead of the last
AfterFailure_firsterror(e, log) ==
    LET first == IF inv.last_exception = "none" THEN e ELSE inv.last_exception
    IN  IF inv.client < LastClient
        THEN [inv EXCEPT !.pc = "rate_limit", !.client = @ + 1,
                         !.last_exception = first, !.log = log]
        ELSE IF inv.attempt < MaxRetries - 1
        THEN [inv EXCEPT !.pc = "backoff", !.last_exception = first, !.log = log,
                         !.wake = now + Pow2(inv.attempt) * TicksPerSec]
        ELSE [inv EXCEPT !.pc = "raised", !.last_exception = first, !.log = log]

\* the state of the loops after func(client) raised e
AfterFailure(e, log) ==
    IF inv.client < LastClient
    THEN [inv EXCEPT !.pc = "rate_limit", !.client = @ + 1,
                     !.last_exception = e, !.log = log]
    ELSE IF inv.attempt < MaxRetries - 1
    THEN [inv EXCEPT !.pc = "backoff", !.last_exception = e, !.log = log,
                     !.wake = now + Pow2(inv.attempt) * TicksPerSec]
    ELSE [inv EXCEPT !.pc = "raised", !.last_exception = e, !.log = log]

\* result = await func(client, ...): return it, or catch and continue
Invoke(outcome) ==
    /\ inv.pc = "call"
    /\ outcome \in FuncOutcomes(inv.op)
    /\ LET log == inv.log \o
                  LogEntries(inv.client, inv.attempt, RpcCalls(inv.op, outcome))
           call == [client |-> inv.client, cycle |-> inv.attempt,
                    outcome |-> outcome]
       IN  IF Succeeds(outcome)
           THEN \E resp \in Responses(inv.op, outcome) :
                  inv' = [inv EXCEPT
                            !.pc = "returned", !.log = log,
                            !.calls = Append(@, [client |-> inv.client,
                                                 cycle |-> inv.attempt,
                                                 outcome |-> outcome,
                                                 response |-> resp]),
                            !.value = FuncResult(inv.op, resp)]
           ELSE inv' = [AfterFailure(outcome, log) EXCEPT
                          !.calls = Append(@, call)]
    /\ UNCHANGED <<now, request_count, request_window_start, callers, admitted>>
    /\ UNCHANGED <<swarmVars, marketVars, serviceVars>>

\* await asyncio.sleep(2 ** attempt) is over: the next cycle starts
BackoffEnd ==
    /\ inv.pc = "backoff"
    /\ now >= inv.wake
    /\ inv' = [inv EXCEPT !.pc = "rate_limit", !.attempt = @ + 1, !.client = 0]
    /\ UNCHANGED <<now, request_count, request_window_start, callers, admitted>>
    /\ UNCHANGED <<swarmVars, marketVars, serviceVars>>

\* time passes while the call is suspended: in a sleep, or in func's I/O
RetryTick ==
    /\ now < RetryMaxTime
    /\ \/ inv.pc \in {"rate_sleep", "backoff"} /\ now < inv.wake
       \/ inv.pc = "call"
    /\ now' = now + 1
    /\ UNCHANGED <<request_count, request_window_start, callers, admitted, inv>>
    /\ UNCHANGED <<swarmVars, marketVars, serviceVars>>

RetryNext ==
    \/ \E op \in Ops : execute_with_retry(op)
    \/ RetryRateLimit
    \/ RetryRateWake
    \/ \E outcome \in {"ok", "rpc_error", "timeout", "blockhash_error",
                       "send_ok", "send_rpc_error", "send_timeout",
                       "token_ok", "token_rpc_error", "token_timeout"} :
          Invoke(outcome)
    \/ BackoffEnd
    \/ RetryTick

(***************************************************************************)
(* Market data: MarketDataManager.get_token_price and its cache            *)
(***************************************************************************)
TickSeconds == 10          \* seconds one tick of the market clock advances
MarketMaxTime == 40        \* seconds observed by the market model
cache_ttl == 30            \* MarketDataManager.cache_ttl

Symbols == {"SOL"}
Sources == {"jupiter", "coingecko", "binance"}

\* MarketDataManager.source_priorities
source_priorities(src) ==
    CASE src = "jupiter" -> 100
      [] src = "binance" -> 80
      [] src = "coingecko" -> 70
      [] OTHER -> 0

\* the confidence each _get_price_<source> adapter stamps on its record
source_confidence(src) ==
    CASE src = "jupiter" -> 95
      [] src = "binance" -> 85
      [] src = "coingecko" -> 90
      [] OTHER -> 100

\* the sources argument: None stands for the default list
DefaultSources == <<"jupiter", "coingecko", "binance">>
SourceLists ==
    {DefaultSources, <<"coingecko", "jupiter">>, <<"binance">>, <<>>}

\* sorted(sources, key=priority, reverse=True): a stable insertion sort
RECURSIVE InsertByPriority(_, _)
InsertByPriority(src, sorted) ==
    IF sorted = <<>> THEN <<src>>
    ELSE IF source_priorities(sorted[1]) >= source_priorities(src)
         THEN <<sorted[1]>> \o InsertByPriority(src, Tail(sorted))
         ELSE <<src>> \o sorted

\* mutant: the sources are tried in the order given
SortByPriority_unsorted(srcs) == srcs

RECURSIVE SortByPriority(_)
SortByPriority(srcs) ==
    IF srcs = <<>> THEN <<>>
    ELSE InsertByPriority(srcs[Len(srcs)], SortByPriority(SubSeq(srcs, 1, Len(srcs) - 1)))

\* prices a source may report (Decimal(str(...)) of the remote value)
PriceValues == {0, 100}
Times == {t \in 0..MarketMaxTime : t % TickSeconds = 0}

\* what _get_price_from_source(symbol, source) can do: raise, return None,
\* or return a PriceData.  Jupiter and CoinGecko stamp datetime.now();
\* Binance stamps the exchange's ticker time, which may lie in the past.
Fetches(sym, src) ==
    {[kind |-> "raise"], [kind |-> "none"]}
    \cup {[kind |-> "record", symbol |-> sym, price |-> p, timestamp |-> ts,
           source |-> src, confidence |-> source_confidence(src)] :
            p \in PriceValues,
            ts \in IF src = "binance" THEN {t \in Times : t <= mnow} ELSE {mnow}}

\* every answer any source can give at any time
AllFetches ==
    {[kind |-> "raise"], [kind |-> "none"]}
    \cup {[kind |-> "record", symbol |-> sym, price |-> p, timestamp |-> ts,
           source |-> src, confidence |-> source_confidence(src)] :
            sym \in Symbols, src \in Sources, p \in PriceValues, ts \in Times}

\* mutant: the dictionary names the preferred source, not the record's
to_dict_preferred(rec) ==
    [symbol |-> rec.symbol, price |-> rec.price, timestamp |-> rec.timestamp,
     source |-> "jupiter", confidence |-> rec.confidence]

\* PriceData.to_dict
to_dict(rec) ==
    [symbol |-> rec.symbol, price |-> rec.price, timestamp |-> rec.timestamp,
     source |-> rec.source, confidence |-> rec.confidence]

\* "if price_data:" -- a PriceData instance is truthy whatever it holds
Accepted(fetch) == fetch.kind = "record"

\* mutant: an entry never expires
is_cache_valid_noexpiry(key) == key \in DOMAIN cache

\* mutant: the cache is never consulted
is_cache_valid_never(key) == FALSE

\* MarketDataManager._is_cache_valid
is_cache_valid(key) ==
    /\ key \in DOMAIN cache
    /\ mnow - cache[key].inserted < cache_ttl

Put(c, key, val) ==
    [k \in DOMAIN c \cup {key} |-> IF k = key THEN val ELSE c[k]]

\* mutant: a failed source leaves a placeholder entry in the cache
CacheAfterFailure_placeholder(sym) ==
    Put(cache, sym, [data |-> [symbol |-> sym, price |-> 0, timestamp |-> mnow,
                               source |-> "none", confidence |-> 0],
                     inserted |-> mnow])

\* the except/continue path of the source loop does not touch the cache
CacheAfterFailure(sym) == cache

AllFailed(call) ==
    [kind |-> "error", symbol |-> call.symbol, at |-> mnow,
     error |-> "All price sources failed", before |-> call.before,
     requested |-> call.requested, contacted |-> call.contacted]

\* MarketDataManager.__init__: an empty cache
MarketInit(t0) ==
    /\ mnow = t0
    /\ cache = <<>>
    /\ mcall = [pc |-> "idle"]
    /\ mresult = [kind |-> "none"]
    /\ overview = [pc |-> "idle"]

\* get_token_price up to the first source it awaits
get_token_price(sym, srcs) ==
    /\ mcall.pc = "idle"
    /\ IF is_cache_valid(sym)
       THEN /\ mresult' = [kind |-> "hit", symbol |-> sym, at |-> mnow,
                           data |-> cache[sym].data,
                           inserted |-> cache[sym].inserted,
                           requested |-> srcs, contacted |-> <<>>]
            /\ mcall' = mcall
       ELSE LET call == [pc |-> "fetching", symbol |-> sym,
                         todo |-> SortByPriority(srcs), before |-> cache,
                         requested |-> srcs, contacted |-> <<>>]
            IN  IF call.todo = <<>>
                THEN mresult' = AllFailed(call) /\ mcall' = mcall
                ELSE mresult' = [kind |-> "none"] /\ mcall' = call
    /\ UNCHANGED <<mnow, cache, overview>>
    /\ UNCHANGED <<swarmVars, gatewayVars, serviceVars>>

\* price_data = await self._get_price_from_source(symbol, source) is over
SourceAnswers(fetch) ==
    /\ mcall.pc = "fetching"
    /\ fetch \in Fetches(mcall.symbol, mcall.todo[1])
    /\ LET contacted == Append(mcall.contacted, mcall.todo[1]) IN
       IF Accepted(fetch)
       THEN /\ cache' = Put(cache, mcall.symbol,
                            [data |-> to_dict(fetch), inserted |-> mnow])
            /\ mresult' = [kind |-> "fetched", symbol |-> mcall.symbol,
                           at |-> mnow, data |-> to_dict(fetch),
                           requested |-> mcall.requested,
                           contacted |-> contacted]
            /\ mcall' = [pc |-> "idle"]
       ELSE /\ cache' = CacheAfterFailure(mcall.symbol)
            /\ IF Len(mcall.todo) > 1
               THEN /\ mcall' = [mcall EXCEPT !.todo = Tail(@),
                                              !.contacted = contacted]
                    /\ mresult' = mresult
               ELSE /\ mcall' = [pc |-> "idle"]
                    /\ mresult' = AllFailed([mcall EXCEPT !.contacted = contacted])
    /\ UNCHANGED <<mnow, overview>>
    /\ UNCHANGED <<swarmVars, gatewayVars, serviceVars>>

MarketTick ==
    /\ mnow + TickSeconds <= MarketMaxTime
    /\ mnow' = mnow + TickSeconds
    /\ UNCHANGED <<cache, mcall, mresult, overview>>
    /\ UNCHANGED <<swarmVars, gatewayVars, serviceVars>>

MarketNext ==
    \/ \E sym \in Symbols, srcs \in SourceLists : get_token_price(sym, srcs)
    \/ \E fetch \in AllFetches : SourceAnswers(fetch)
    \/ MarketTick

(***************************************************************************)
(* Market data: MarketDataManager.get_market_overview                      *)
(*   A gathered value carries its Python type: get_token_price returns a   *)
(*   dict, get_dex_data a DexData, a failed task its exception.            *)
(***************************************************************************)
major_tokens == <<"SOL", "USDC", "RAY", "ORCA">>
dex_names == <<"raydium", "orca", "jupiter">>

\* cache_key = f"dex_{dex_name}"
DexKey(name) ==
    CASE name = "raydium" -> "dex_raydium"
      [] name = "orca" -> "dex_orca"
      [] name = "jupiter" -> "dex_jupiter"

Pending == [type |-> "pending"]

\* what one get_token_price task of the overview ends with when the cache
\* does not answer: every source failed, or the first source that answers
\* delivers a price
TokenAnswers == {[kind |-> "none"], [kind |-> "price", price |-> 100]}

\* what the DEX adapter of one get_dex_data task does: raise, or deliver
DexAnswers == {[kind |-> "raise"], [kind |-> "data", tvl |-> 5]}

isinstance(x, type) == x.type = type

IsException(x) == isinstance(x, "MarketDataError")

\* mutant: gather without return_exceptions, the first exception propagates
gather_propagating(results) ==
    [raised |-> \E i \in 1..Len(results) : IsException(results[i]),
     values |-> results]

\* asyncio.gather(*tasks, return_exceptions=True): nothing is raised, an
\* exception is a value of the list
gather(results) == [raised |-> FALSE, values |-> results]

\* token_prices[token] of the "Format results" loop
TokenEntry(price_data) ==
    IF isinstance(price_data, "PriceData")
    THEN to_dict(price_data.value)
    ELSE [error |-> price_data]

\* dex_info[name] of the "Format results" loop
DexEntry(data) ==
    IF isinstance(data, "DexData")
    THEN [tvl |-> data.value.tvl, volume_24h |-> data.value.volume_24h,
          pools_count |-> data.value.pools_count]
    ELSE [error |-> data]

RECURSIVE SumTvl(_)
SumTvl(seq) ==
    IF seq = <<>> THEN 0
    ELSE (IF isinstance(seq[1], "DexData") THEN seq[1].value.tvl ELSE 0)
         + SumTvl(Tail(seq))

\* get_market_overview after both gathers
FormatOverview(price_results, dex_results) ==
    LET prices == gather(price_results)
        dex_data == gather(dex_results)
    IN  IF prices.raised \/ dex_data.raised
        THEN [kind |-> "raised", error |-> "Market overview failed"]
        ELSE [kind |-> "overview",
              timestamp |-> mnow,
              tokens |-> [t \in Range(major_tokens) |->
                            TokenEntry(prices.values[CHOOSE i \in 1..Len(major_tokens) :
                                                major_tokens[i] = t])],
              dexes |-> [d \in Range(dex_names) |->
                            DexEntry(dex_data.values[CHOOSE i \in 1..Len(dex_names) :
                                                dex_names[i] = d])],
              total_ecosystem_tvl |-> SumTvl(dex_data.values)]

\* get_market_overview creates the four price tasks
get_market_overview ==
    /\ overview.pc \in {"idle", "done"}
    /\ mcall.pc = "idle"
    /\ overview' = [pc |-> "tokens",
                    prices |-> [i \in 1..Len(major_tokens) |-> Pending],
                    dex_data |-> [i \in 1..Len(dex_names) |-> Pending]]
    /\ UNCHANGED <<mnow, cache, mcall, mresult>>
    /\ UNCHANGED <<swarmVars, gatewayVars, serviceVars>>

\* the get_token_price(major_tokens[i]) task ends: a cached dict, the dict of
\* a fetched record (which is cached), or MarketDataError
TokenTask(i, answer) ==
    /\ overview.pc = "tokens"
    /\ i \in 1..Len(major_tokens)
    /\ overview.prices[i] = Pending
    /\ LET sym == major_tokens[i]
           rec == [symbol |-> sym, price |-> answer.price, timestamp |-> mnow,
                   source |-> "jupiter",
                   confidence |-> source_confidence("jupiter")]
           res == IF is_cache_valid(sym)
                  THEN [type |-> "dict", value |-> cache[sym].data]
                  ELSE IF answer.kind = "price"
                  THEN [type |-> "dict", value |-> to_dict(rec)]
                  ELSE [type |-> "MarketDataError",
                        value |-> "All price sources failed"]
           prices == [overview.prices EXCEPT ![i] = res]
       IN  /\ cache' = IF ~is_cache_valid(sym) /\ answer.kind = "price"
                       THEN Put(cache, sym, [data |-> to_dict(rec), inserted |-> mnow])
                       ELSE cache
           /\ overview' = [overview EXCEPT
                             !.prices = prices,
                             !.pc = IF \A j \in 1..Len(prices) : prices[j] # Pending
                                    THEN "dexes" ELSE "tokens"]
    /\ UNCHANGED <<mnow, mcall, mresult>>
    /\ UNCHANGED <<swarmVars, gatewayVars, serviceVars>>

\* the get_dex_data(dex_names[i]) task ends; after the last one the results
\* are formatted and get_market_overview returns
DexTask(i, answer) ==
    /\ overview.pc = "dexes"
    /\ i \in 1..Len(dex_names)
    /\ overview.dex_data[i] = Pending
    /\ LET key == DexKey(dex_names[i])
           data == [name |-> dex_names[i], tvl |-> answer.tvl,
                    volume_24h |-> 0, pools_count |-> 0, timestamp |-> mnow]
           res == IF is_cache_valid(key)
                  THEN [type |-> "DexData", value |-> cache[key].data]
                  ELSE IF answer.kind = "data"
                  THEN [type |-> "DexData", value |-> data]
                  ELSE [type |-> "MarketDataError",
                        value |-> "DEX data fetch failed"]
           dex_data == [overview.dex_data EXCEPT ![i] = res]
       IN  /\ cache' = IF ~is_cache_valid(key) /\ answer.kind = "data"
                       THEN Put(cache, key, [data |-> data, inserted |-> mnow])
                       ELSE cache
           /\ overview' =
                IF \A j \in 1..Len(dex_data) : dex_data[j] # Pending
                THEN [pc |-> "done", prices |-> overview.prices,
                      dex_data |-> dex_data,
                      result |-> FormatOverview(overview.prices, dex_data)]
                ELSE [overview EXCEPT !.dex_data = dex_data]
    /\ UNCHANGED <<mnow, mcall, mresult>>
    /\ UNCHANGED <<swarmVars, gatewayVars, serviceVars>>

OverviewNext ==
    \/ get_market_overview
    \/ \E i \in 1..4, answer \in TokenAnswers : TokenTask(i, answer)
    \/ \E i \in 1..3, answer \in DexAnswers : DexTask(i, answer)

(***************************************************************************)
(* Connection health: SolanaConnection.health_check                        *)
(***************************************************************************)
HealthTickSeconds == 10        \* seconds one tick of the health clock advances
HealthMaxTime == 50            \* seconds observed by the health model
MaxProbes == 3                 \* get_health probes observed
health_check_interval == 30    \* SolanaConnection._health_check_interval
HealthCallers == {"h1", "h2"}

\* time.time() at construction is more than an interval past the epoch,
\* where _last_health_check starts
HealthInit(t0) ==
    health = [now |-> health_check_interval + HealthTickSeconds + t0,
              is_connected |-> FALSE,
              last_health_check |-> 0,
              calls |-> [c \in HealthCallers |-> [pc |-> "idle"]],
              probes |-> <<>>,
              result |-> [kind |-> "none"]]

MustProbe ==
    ~(health.now - health.last_health_check < health_check_interval)

\* health_check up to its await: the cached answer, or the probe is sent
health_check(c) ==
    /\ health.calls[c].pc = "idle"
    /\ IF ~MustProbe
       THEN health' = [health EXCEPT
                         !.result = [kind |-> "cached", caller |-> c,
                                     at |-> health.now,
                                     value |-> health.is_connected]]
       ELSE /\ Len(health.probes) < MaxProbes
            /\ health' = [health EXCEPT
                            !.calls[c] = [pc |-> "probing",
                                          current_time |-> health.now],
                            !.probes = Append(@, health.now),
                            !.result = [kind |-> "none"]]
    /\ UNCHANGED <<guardian, jupiter, manager>>
    /\ UNCHANGED coreVars

\* await self.client.get_health() completes
ProbeAnswers(c, outcome) ==
    /\ health.calls[c].pc = "probing"
    /\ health' =
         IF outcome = "raise"
         THEN [health EXCEPT
                 !.is_connected = FALSE,
                 !.calls[c] = [pc |-> "idle"],
                 !.result = [kind |-> "probed", caller |-> c,
                             at |-> health.now, value |-> FALSE]]
         ELSE [health EXCEPT
                 !.is_connected = (outcome = "ok"),
                 !.last_health_check = health.calls[c].current_time,
                 !.calls[c] = [pc |-> "idle"],
                 !.result = [kind |-> "probed", caller |-> c,
                             at |-> health.now, value |-> (outcome = "ok")]]
    /\ UNCHANGED <<guardian, jupiter, manager>>
    /\ UNCHANGED coreVars

HealthTick ==
    /\ health.now + HealthTickSeconds <= HealthMaxTime + health_check_interval
    /\ health' = [health EXCEPT !.now = @ + HealthTickSeconds,
                                !.result = [kind |-> "none"]]
    /\ UNCHANGED <<guardian, jupiter, manager>>
    /\ UNCHANGED coreVars

HealthNext ==
    \/ \E c \in HealthCallers : health_check(c)
    \/ \E c \in HealthCallers, outcome \in {"ok", "not_ok", "raise"} :
          ProbeAnswers(c, outcome)
    \/ HealthTick

(***************************************************************************)
(* Jupiter client: the HTTP session and get_quote                          *)
(*   A session is known by the order of its creation; session 0 is None.   *)
(***************************************************************************)
MaxSessions == 3           \* ClientSession objects created in one behaviour
MaxQuoteRetries == 2       \* max_retries is drawn from 0..MaxQuoteRetries

NoQuote == [pc |-> "idle"]

JupiterInit(session) ==
    jupiter = [session |-> session, sessions |-> <<>>, closing |-> FALSE,
               quote |-> NoQuote, last |-> "none"]

SessionUsable(j) == j.session # 0 /\ j.sessions[j.session] = "open"

\* mutant: a closed session is kept, only a missing one is replaced
EnsureSession_keepclosed(j) ==
    IF j.session = 0
    THEN [j EXCEPT !.sessions = Append(@, "open"),
                   !.session = Len(j.sessions) + 1]
    ELSE j

\* JupiterClient._ensure_session
EnsureSession(j) ==
    IF ~SessionUsable(j)
    THEN [j EXCEPT !.sessions = Append(@, "open"),
                   !.session = Len(j.sessions) + 1]
    ELSE j

CanEnsure == SessionUsable(jupiter) \/ Len(jupiter.sessions) < MaxSessions

ensure_session ==
    /\ CanEnsure
    /\ jupiter' = [EnsureSession(jupiter) EXCEPT !.last = "_ensure_session"]
    /\ UNCHANGED <<health, guardian, manager>>
    /\ UNCHANGED coreVars

\* JupiterClient.close up to its sleep: the session in use is closed
\* (last names the session operation that ran last)
close ==
    /\ ~jupiter.closing
    /\ jupiter' =
         IF SessionUsable(jupiter)
         THEN [jupiter EXCEPT !.sessions[jupiter.session] = "closed",
                              !.closing = TRUE, !.last = "close"]
         ELSE [jupiter EXCEPT !.last = "close"]
    /\ UNCHANGED <<health, guardian, manager>>
    /\ UNCHANGED coreVars

\* await asyncio.sleep(0.1) of close is over
CloseDone ==
    /\ jupiter.closing
    /\ jupiter' = [jupiter EXCEPT !.closing = FALSE]
    /\ UNCHANGED <<health, guardian, manager>>
    /\ UNCHANGED coreVars

\* get_quote up to its first request; range(0) is empty
get_quote(max_retries) ==
    /\ jupiter.quote.pc \in {"idle", "returned", "raised"}
    /\ CanEnsure
    /\ jupiter' =
         [EnsureSession(jupiter) EXCEPT
            !.quote = [pc |-> IF max_retries = 0 THEN "raised" ELSE "request",
                       max_retries |-> max_retries, attempt |-> 0,
                       attempts |-> <<>>,
                       error |-> IF max_retries = 0 THEN "JupiterError"
                                 ELSE "none"]]
    /\ UNCHANGED <<health, guardian, manager>>
    /\ UNCHANGED coreVars

\* mutant: the last failure is followed by one more attempt
AfterQuoteFailure_onemore(q) ==
    IF q.attempt < q.max_retries
    THEN [q EXCEPT !.pc = "sleep"]
    ELSE [q EXCEPT !.pc = "raised", !.error = "JupiterError"]

\* a non-200 answer or an aiohttp.ClientError in attempt q.attempt
AfterQuoteFailure(q) ==
    IF q.attempt < q.max_retries - 1
    THEN [q EXCEPT !.pc = "sleep"]
    ELSE [q EXCEPT !.pc = "raised", !.error = "JupiterError"]

QuoteOutcomes == {"200", "non200", "client_error", "timeout", "session_closed"}

\* async with self.session.get(...): the request of one attempt.  A session
\* closed meanwhile raises RuntimeError, a total timeout asyncio.TimeoutError;
\* neither is an aiohttp.ClientError
QuoteAttempt(outcome) ==
    /\ jupiter.quote.pc = "request"
    /\ (outcome = "session_closed") <=> ~SessionUsable(jupiter)
    /\ LET q == [jupiter.quote EXCEPT !.attempts = Append(@, outcome)]
       IN  jupiter' =
             [jupiter EXCEPT !.quote =
                IF outcome = "200" THEN [q EXCEPT !.pc = "returned"]
                ELSE IF outcome = "session_closed"
                THEN [q EXCEPT !.pc = "raised", !.error = "RuntimeError"]
                ELSE IF outcome = "timeout"
                THEN [q EXCEPT !.pc = "raised", !.error = "TimeoutError"]
                ELSE AfterQuoteFailure(q)]
    /\ UNCHANGED <<health, guardian, manager>>
    /\ UNCHANGED coreVars

\* await asyncio.sleep(2 ** attempt) is over: the next attempt
QuoteBackoffEnd ==
    /\ jupiter.quote.pc = "sleep"
    /\ jupiter' = [jupiter EXCEPT !.quote.pc = "request",
                                  !.quote.attempt = @ + 1]
    /\ UNCHANGED <<health, guardian, manager>>
    /\ UNCHANGED coreVars

JupiterNext ==
    \/ ensure_session
    \/ close
    \/ CloseDone
    \/ \E max_retries \in 0..MaxQuoteRetries : get_quote(max_retries)
    \/ \E outcome \in QuoteOutcomes : QuoteAttempt(outcome)
    \/ QuoteBackoffEnd

(***************************************************************************)
(* Asset guardian: AssetGuardian                                           *)
(*   Confidences are hundredths, change_24h and risk_score are percents.   *)
(***************************************************************************)
MaxStrategies == 2             \* strategies generated in one behaviour
StoreConfidence == 75          \* generate_strategy keeps confidence >= 0.75
AutoExecuteConfidence == 80    \* automated execution asks confidence >= 0.8
EmergencyDrop == 20            \* emergency: change_24h < -20
EmergencyRisk == 90            \* emergency: risk_score > 90
RebalanceChange == 15          \* rebalance: abs(change_24h) > 15
RebalanceRisk == 80            \* rebalance: risk_score > 80

SettingKeys == {"auto_execution", "simulation_mode", "emergency_stop_loss"}
OperationTypes == {"rebalance", "exit"}
\* what decision_maker.evaluate did: raised, or answered with a confidence
StrategyAnswerValues ==
    {[kind |-> "raise", confidence |-> 0]}
    \cup {[kind |-> "ok", confidence |-> c] : c \in {50, 78, 90}}
ChangeValues == {-25, 0}
RiskValues == {50, 95}

\* gateway methods that write to the chain, and the reads of _update_portfolio
WriteMethods == {"send_transaction", "transfer_sol", "swap_tokens"}
PortfolioReads == {"get_balance", "get_network_stats", "get_token_balance"}

Idle == [pc |-> "idle"]

GuardianInit(simulation_mode) ==
    guardian = [settings |-> [auto_execution |-> FALSE,
                              simulation_mode |-> simulation_mode,
                              emergency_stop_loss |-> TRUE],
                active_strategies |-> <<>>,
                task |-> Idle,
                agent_calls |-> {},
                rpc_calls |-> {},
                result |-> [kind |-> "none"]]

\* AssetGuardian.update_settings with one boolean setting
update_settings(key, value) ==
    /\ guardian' = [guardian EXCEPT !.settings[key] = value,
                                    !.result = [kind |-> "settings"]]
    /\ UNCHANGED <<health, jupiter, manager>>
    /\ UNCHANGED coreVars

\* mutant: the simulation_mode setting is not consulted
Execute_real(g, path) ==
    IF g.active_strategies = <<>>
    THEN [g EXCEPT !.result = [kind |-> "execute", path |-> path,
                               status |-> "error", target |-> 0]]
    ELSE LET n == Len(g.active_strategies)
         IN  [g EXCEPT !.active_strategies[n].status = "executed",
                       !.result = [kind |-> "execute", path |-> path,
                                   status |-> "executed", target |-> n]]

\* AssetGuardian.execute_strategy() on the latest strategy; path tells who
\* called it
Execute(g, path) ==
    IF g.active_strategies = <<>>
    THEN [g EXCEPT !.result = [kind |-> "execute", path |-> path,
                               status |-> "error", target |-> 0]]
    ELSE LET n == Len(g.active_strategies)
             status == IF g.settings.simulation_mode THEN "simulated"
                       ELSE "executed"
         IN  [g EXCEPT !.active_strategies[n].status = status,
                       !.result = [kind |-> "execute", path |-> path,
                                   status |-> status, target |-> n]]

execute_strategy ==
    /\ guardian' = Execute(guardian, "direct")
    /\ UNCHANGED <<health, jupiter, manager>>
    /\ UNCHANGED coreVars

\* generate_strategy up to its await of decision_maker.evaluate(context);
\* then tells what the caller does with the strategy
Generating(g, op, then) ==
    [g EXCEPT !.task = [pc |-> "generating", operation_type |-> op,
                        then |-> then],
              !.agent_calls = @ \cup {[method |-> "evaluate",
                                       operation_type |-> op,
                                       consensus |-> FALSE]},
              !.result = [kind |-> "none"]]

generate_strategy(op) ==
    /\ guardian.task = Idle
    /\ Len(guardian.active_strategies) < MaxStrategies
    /\ guardian' = Generating(guardian, op, "return")
    /\ UNCHANGED <<health, jupiter, manager>>
    /\ UNCHANGED coreVars

_check_emergency_conditions(change, risk) ==
    change < -EmergencyDrop \/ risk > EmergencyRisk

\* recent: a rebalance was executed less than 24 hours ago
_should_rebalance(change, risk, drift, recent) ==
    /\ ~recent
    /\ \/ (IF change < 0 THEN -change ELSE change) > RebalanceChange
       \/ risk > RebalanceRisk
       \/ drift

\* AssetGuardian.update: the portfolio is read, the analyses give change_24h
\* and risk_score, then _check_automated_actions up to its first await
update(change, risk, drift, recent) ==
    /\ guardian.task = Idle
    /\ Len(guardian.active_strategies) < MaxStrategies
    /\ LET g == [guardian EXCEPT !.rpc_calls = @ \cup PortfolioReads,
                                 !.result = [kind |-> "update"]]
       IN  guardian' =
             IF ~g.settings.auto_execution THEN g
             ELSE IF /\ g.settings.emergency_stop_loss
                     /\ _check_emergency_conditions(change, risk)
             THEN Generating(g, "exit", "emergency")
             ELSE IF _should_rebalance(change, risk, drift, recent)
             THEN Generating(g, "rebalance", "auto")
             ELSE g
    /\ UNCHANGED <<health, jupiter, manager>>
    /\ UNCHANGED coreVars

\* decision_maker.evaluate answers: generate_strategy stores a confident
\* strategy and returns, and its caller goes on
StrategyAnswers(res) ==
    /\ guardian.task.pc = "generating"
    /\ LET op == guardian.task.operation_type
           stored ==
             IF res.kind = "ok" /\ res.confidence >= StoreConfidence
             THEN Append(guardian.active_strategies,
                         [operation_type |-> op, status |-> "pending"])
             ELSE guardian.active_strategies
           g == [guardian EXCEPT
                   !.active_strategies = stored,
                   !.task = Idle,
                   !.result = [kind |-> "strategy", operation_type |-> op,
                               confidence |-> res.confidence]]
       IN  guardian' =
             IF guardian.task.then = "emergency" THEN Execute(g, "emergency")
             ELSE IF /\ guardian.task.then = "auto"
                     /\ res.confidence >= AutoExecuteConfidence
             THEN Execute(g, "auto")
             ELSE g
    /\ UNCHANGED <<health, jupiter, manager>>
    /\ UNCHANGED coreVars

GuardianNext ==
    \/ \E key \in SettingKeys, value \in BOOLEAN : update_settings(key, value)
    \/ execute_strategy
    \/ \E op \in OperationTypes : generate_strategy(op)
    \/ \E change \in ChangeValues, risk \in RiskValues,
          drift \in BOOLEAN, recent \in BOOLEAN :
          update(change, risk, drift, recent)
    \/ \E res \in StrategyAnswerValues : StrategyAnswers(res)

(***************************************************************************)
(* Consensus manager: ConsensusManager                                     *)
(*   A decision is kept as Python sees it: the booleans True and False of  *)
(*   the Vote dataclass, or the strings evaluate_proposal answers with.    *)
(***************************************************************************)
MaxVotes == 3                  \* votes handed to reach_consensus directly
MaxCollects == 1               \* collect_votes calls in one behaviour

ManagerMinVotesValues == {2, 3}
ProposalIds == {"p1"}

ManagerInit(mc, mv) ==
    manager = [min_confidence |-> mc, min_votes |-> mv,
               votes |-> [id \in ProposalIds |-> <<>>],
               known |-> {}, collects |-> 0,
               asked |-> <<>>, escaped |-> <<>>,
               result |-> [kind |-> "none"]]

\* bool(decision): False is falsy, True and every non-empty string truthy
Truthy(decision) == decision # "False"

RECURSIVE SumTruthy(_)
SumTruthy(vs) ==
    IF vs = <<>> THEN 0
    ELSE (IF Truthy(vs[1].decision) THEN vs[1].confidence ELSE 0)
         + SumTruthy(Tail(vs))

\* ConsensusManager.reach_consensus
ReachConsensus(m, votes) ==
    IF Len(votes) < m.min_votes
    THEN [kind |-> "consensus", consensus |-> FALSE,
          reason |-> "Insufficient votes", total_votes |-> Len(votes),
          approval_rate |-> [num |-> 0, den |-> 1], votes |-> votes]
    ELSE LET total_confidence == SumConf(votes)
             weighted_approval ==
               IF total_confidence = 0 THEN [num |-> 0, den |-> 1]
               ELSE [num |-> SumTruthy(votes), den |-> total_confidence]
         IN  [kind |-> "consensus",
              consensus |-> RateGE(weighted_approval, m.min_confidence),
              reason |-> "none", total_votes |-> Len(votes),
              approval_rate |-> weighted_approval, votes |-> votes]

\* the lists of Vote objects a caller may hand to reach_consensus
BoolVotes ==
    {[agent_id |-> a, decision |-> d, confidence |-> c, reasoning |-> "r"] :
        a \in {"a1"}, d \in {"True", "False"}, c \in {0, 30, 90}}
BoolVoteLists == UNION {[1..n -> BoolVotes] : n \in 0..MaxVotes}

reach_consensus(votes) ==
    /\ manager' = [manager EXCEPT !.result = ReachConsensus(manager, votes)]
    /\ UNCHANGED <<health, guardian, jupiter>>
    /\ UNCHANGED coreVars

\* what agent.evaluate_proposal(proposal) did for _get_agent_vote: the
\* call raised ("escape"), or the agent evaluated as in evaluate_proposal
CollectAnswers ==
    {[kind |-> "escape", confidence |-> 0]} \cup EvalResults
AnswerSeqs == UNION {[1..n -> CollectAnswers] : n \in 0..MaxPeers}

NoVote == [agent_id |-> "None", decision |-> "None", confidence |-> 0,
           reasoning |-> "None"]

\* ConsensusManager._get_agent_vote
_get_agent_vote(agent, answer) ==
    IF answer.kind = "escape" THEN NoVote
    ELSE LET res == evaluate_proposal(agent, answer)
         IN  [agent_id |-> agent, decision |-> res.decision,
              confidence |-> res.confidence, reasoning |-> res.reasoning]

\* ConsensusManager.collect_votes: gather returns the results in the order
\* of the agents, the None results are filtered out
collect_votes(id, agents, answers) ==
    /\ manager.collects < MaxCollects
    /\ Len(agents) = Len(answers)
    /\ LET results == [i \in 1..Len(agents) |->
                          _get_agent_vote(agents[i], answers[i])]
           votes == SelectSeq(results, LAMBDA v : v # NoVote)
       IN  manager' = [manager EXCEPT
                         !.votes[id] = votes,
                         !.known = @ \cup {id},
                         !.collects = @ + 1,
                         !.asked = agents,
                         !.escaped = [i \in 1..Len(agents) |->
                                        answers[i].kind = "escape"],
                         !.result = [kind |-> "votes", id |-> id,
                                     votes |-> votes]]
    /\ UNCHANGED <<health, guardian, jupiter>>
    /\ UNCHANGED coreVars

\* reach_consensus on the votes collect_votes returned for a proposal
reach_consensus_collected(id) ==
    /\ id \in manager.known
    /\ manager' = [manager EXCEPT
                     !.result = ReachConsensus(manager, manager.votes[id])]
    /\ UNCHANGED <<health, guardian, jupiter>>
    /\ UNCHANGED coreVars

ReachNext == \E votes \in BoolVoteLists : reach_consensus(votes)

PipelineNext ==
    \/ \E a \in Agents : initialize(a)
    \/ \E id \in ProposalIds, agents \in PeerSeqs, answers \in AnswerSeqs :
          collect_votes(id, agents, answers)
    \/ \E id \in ProposalIds : reach_consensus_collected(id)

\* the services as constructed
ServiceInit(t0) ==
    /\ HealthInit(t0)
    /\ GuardianInit(TRUE)
    /\ JupiterInit(0)
    /\ ManagerInit(70, 3)

(***************************************************************************)
(* Specifications                                                          *)
(***************************************************************************)
InitSwarm ==
    /\ \E mc \in MinConfValues, mv \in MinVotesValues : SwarmInit(mc, mv)
    /\ GatewayInit(0)
    /\ MarketInit(0) /\ ServiceInit(0)

SpecSwarm == InitSwarm /\ [][SwarmNext]_vars

InitTopology ==
    SwarmInitWith(70, 2, MaxTopologyJoins) /\ GatewayInit(0) /\ MarketInit(0) /\ ServiceInit(0)

SpecTopology == InitTopology /\ [][TopologyNext]_vars

InitVote ==
    /\ \E mc \in VoteMinConfValues : SwarmInit(mc, 2)
    /\ GatewayInit(0)
    /\ MarketInit(0) /\ ServiceInit(0)

SpecVote == InitVote /\ [][VoteNext]_vars

InitLifecycle == SwarmInit(70, 2) /\ GatewayInit(0) /\ MarketInit(0) /\ ServiceInit(0)

SpecLifecycle == InitLifecycle /\ [][LifecycleNext]_vars

\* fresh agents, one of which has joined a list of peers
InitAggregate ==
    /\ \E mc \in MinConfValues, mv \in MinVotesValues,
          a \in Agents, peers \in PeerSeqs :
          /\ min_confidence = [q \in Agents |-> mc]
          /\ min_votes = [q \in Agents |-> mv]
          /\ swarm_peers =
                [q \in Agents |-> IF q = a THEN peers
                                  ELSE IF q \in Range(peers) THEN <<a>>
                                  ELSE <<>>]
          /\ is_initialized = [q \in Agents |-> FALSE]
          /\ is_running = [q \in Agents |-> FALSE]
          /\ round = NoRound
          /\ result = NoResult
          /\ joins = 0
    /\ GatewayInit(0)
    /\ MarketInit(0) /\ ServiceInit(0)

SpecAggregate == InitAggregate /\ [][AggregateNext]_vars

InitRoundJoins ==
    SwarmInitWith(70, 2, MaxRoundJoins) /\ GatewayInit(0) /\ MarketInit(0) /\ ServiceInit(0)

SpecRoundJoins == InitRoundJoins /\ [][RoundJoinsNext]_vars

InitRate == SwarmInit(70, 2) /\ GatewayInit(0) /\ MarketInit(0) /\ ServiceInit(0)

SpecRate == InitRate /\ [][RateNext]_vars

SpecRetry == InitRate /\ [][RetryNext]_vars

SpecHealth == InitRate /\ [][HealthNext]_vars

SpecGuardian == InitRate /\ [][GuardianNext]_vars

SpecJupiter == InitRate /\ [][JupiterNext]_vars

\* a swarm of agents without an LLM whose thresholds are above 0.6
InitNoLlm ==
    /\ \E mc \in NoLlmMinConfValues, mv \in MinVotesValues : SwarmInit(mc, mv)
    /\ GatewayInit(0)
    /\ MarketInit(0) /\ ServiceInit(0)

SpecNoLlm == InitNoLlm /\ [][NoLlmNext]_vars

InitManager ==
    /\ SwarmInit(70, 2) /\ GatewayInit(0) /\ MarketInit(0)
    /\ HealthInit(0) /\ GuardianInit(TRUE) /\ JupiterInit(0)
    /\ \E mc \in MinConfValues, mv \in ManagerMinVotesValues :
          ManagerInit(mc, mv)

SpecReach == InitManager /\ [][ReachNext]_vars

SpecPipeline == InitManager /\ [][PipelineNext]_vars

InitMarket == SwarmInit(70, 2) /\ GatewayInit(0) /\ MarketInit(0) /\ ServiceInit(0)

SpecMarket == InitMarket /\ [][MarketNext]_vars

SpecOverview == InitMarket /\ [][OverviewNext]_vars

(***************************************************************************)
(* Properties of the swarm round                                           *)
(***************************************************************************)
\* Sum of confidences of approve votes over the sum of all confidences,
\* 0 when the denominator is 0 (the formula the specification commits to)
WeightedRate(votes) ==
    IF SumConf(votes) = 0 THEN [num |-> 0, den |-> 1]
    ELSE [num |-> SumConf(SelectVotes(votes, "approve")), den |-> SumConf(votes)]

\* C1: every outcome propose_action returns has consensus true exactly when
\* its approval_rate >= the proposer's min_confidence and its number of
\* approve votes >= the proposer's min_votes.
C1_ConsensusIff ==
    result.kind = "outcome" =>
        (result.consensus <=>
            /\ RateGE(result.approval_rate, min_confidence[result.proposer])
            /\ CountApprove(result.votes) >= min_votes[result.proposer])

\* C1 witness: a round whose approval rate met min_confidence but which
\* failed on the number of approvals alone
C1_Witness ==
    /\ result.kind = "outcome"
    /\ result.total_votes >= 1
    /\ ~result.consensus
    /\ RateGE(result.approval_rate, min_confidence[result.proposer])
    /\ CountApprove(result.votes) < min_votes[result.proposer]

\* C2: the approval_rate of an outcome is the confidence-weighted rate.
C2_WeightedApprovalRate ==
    result.kind = "outcome" =>
        RateEq(result.approval_rate, WeightedRate(result.votes))

\* C4: the proposer never votes on its own proposal: no vote of a round, in
\* flight or returned, was cast by the proposer.
C4_InitiatorNeverVotes ==
    /\ result.kind = "outcome" =>
         \A i \in 1..Len(result.votes) : result.votes[i].voter # result.proposer
    /\ round.status = "collecting" =>
         \A i \in 1..Len(round.votes) : round.votes[i].voter # round.proposer

\* C9: a peer whose evaluation raises never makes propose_action fail:
\* propose_action raises only when the proposer itself is not running, a
\* peer whose evaluate raised is recorded as reject with confidence 0, and
\* the outcome holds one vote for every peer of the list, in order.
C9_PeerFailureIsRejectVote ==
    /\ result.kind = "raised" => result.error = "Agent is not running"
    /\ result.kind = "outcome" =>
         /\ result.total_votes = Len(result.asked)
         /\ Len(result.votes) = Len(result.asked)
         /\ \A i \in 1..Len(result.votes) :
              /\ result.votes[i].voter = result.asked[i]
              /\ result.votes[i].decision \in {"approve", "abstain", "reject"}
              /\ result.evals[i] = "raise" =>
                   /\ result.votes[i].decision = "reject"
                   /\ result.votes[i].confidence = 0

\* C9 witness: a returned outcome of two peers, one of which raised
C9_Witness ==
    /\ result.kind = "outcome"
    /\ result.total_votes = 2
    /\ \E i \in 1..2 : result.evals[i] = "raise"
    /\ \E i \in 1..2 : result.evals[i] = "ok"

\* C10: a round ends by its configured timeout: no propose_action call is
\* still waiting for a peer once more than timeout seconds have passed.
C10_RoundEndsByTimeout ==
    round.status = "collecting" => round.elapsed <= Timeout

(***************************************************************************)
(* Properties of the rate limiter                                          *)
(***************************************************************************)
AdmittedIn(t) ==
    Cardinality({i \in 1..Len(admitted) :
                    admitted[i] >= t /\ admitted[i] < t + TicksPerSec})

\* C5: in every rolling 1-second window the number of attempts _rate_limit
\* lets through is at most requests_per_second plus the burst capacity
\* (itself requests_per_second).
C5_RollingWindowBound ==
    \A t \in 0..MaxTime : AdmittedIn(t) <= RequestsPerSecond + RequestsPerSecond

(***************************************************************************)
(* Properties of the retry loop                                            *)
(***************************************************************************)
SendCalls ==
    IF inv.pc = "idle" THEN {}
    ELSE {i \in 1..Len(inv.log) : inv.log[i].method = "sendTransaction"}

\* C3: one invocation of send_transaction issues at most one
\* sendTransaction RPC call over all clients and retry cycles.
C3_AtMostOneSend ==
    (inv.pc # "idle" /\ inv.op = "send_transaction") => Cardinality(SendCalls) <= 1

\* C11: a round that collected fewer votes than min_votes (zero peers
\* included) has consensus false, total_votes equal to the number of votes
\* collected, and carries the reason "insufficient votes".
C11_InsufficientVotesReason ==
    (result.kind = "outcome" /\ result.total_votes < min_votes[result.proposer])
        => /\ ~result.consensus
           /\ result.total_votes = Len(result.votes)
           /\ "reason" \in DOMAIN result
           /\ result.reason = "insufficient votes"

\* C20: in a finished round every distinct peer of the proposer cast exactly
\* one vote, and total_votes is the number of distinct peers.
C20_OneVotePerDistinctPeer ==
    result.kind = "outcome"
        => /\ result.total_votes = Cardinality(Range(result.asked))
           /\ \A q \in Range(result.asked) :
                 Cardinality({i \in 1..Len(result.votes) :
                                result.votes[i].voter = q}) = 1

NumClients == NumBackups + 1

InvStarted == inv.pc # "idle"

AllFailed_calls == \A i \in 1..Len(inv.calls) : ~Succeeds(inv.calls[i].outcome)

\* C12: in every cycle the clients are invoked in the order primary, backup
\* 1, ...; a client is invoked only after every earlier one failed, nothing
\* is invoked after the first success and its result is returned; when the
\* primary fails once and backup 1 answers 1_500_000_000 lamports,
\* get_balance returns 1.5 after exactly two invocations.
C12_ClientOrderAndFirstSuccess ==
    InvStarted =>
        LET n == Len(inv.calls) IN
        /\ \A i \in 1..n :
              /\ inv.calls[i].client = (i - 1) % NumClients
              /\ inv.calls[i].cycle = (i - 1) \div NumClients
        /\ \A i \in 1..(n - 1) : ~Succeeds(inv.calls[i].outcome)
        /\ (n > 0 /\ Succeeds(inv.calls[n].outcome)) <=> inv.pc = "returned"
        /\ (inv.pc = "returned" /\ inv.op = "get_balance")
              => inv.value.sol * LamportsPerSol + inv.value.nano
                   = inv.calls[n].response
        /\ (inv.pc = "returned" /\ inv.op = "send_transaction")
              => inv.value.signature = inv.calls[n].response
        /\ (/\ inv.pc = "returned" /\ inv.op = "get_balance" /\ n = 2
            /\ inv.calls[n].response = 1500000000)
              => inv.value = [sol |-> 1, nano |-> 500000000]

\* C12 witness: the primary failed once, backup 1 answered 1_500_000_000
C12_Witness ==
    /\ inv.pc = "returned"
    /\ inv.op = "get_balance"
    /\ Len(inv.calls) = 2
    /\ inv.calls[1].client = 0
    /\ inv.calls[2].client = 1
    /\ inv.calls[2].response = 1500000000

\* C13: when every client fails in every cycle, the call stops after exactly
\* max_retries cycles over all clients and raises the all-attempts-failed
\* error carrying the error of the last failed invocation; it returns no
\* value.
C13_AllAttemptsFailed ==
    InvStarted =>
        LET n == Len(inv.calls) IN
        /\ n <= MaxRetries * NumClients
        /\ (n = MaxRetries * NumClients /\ AllFailed_calls) <=> inv.pc = "raised"
        /\ inv.pc = "raised"
              => /\ inv.last_exception = inv.calls[n].outcome
                 /\ inv.value = "none"

\* C13 witness: a call that has raised after the last cycle
C13_Witness ==
    /\ inv.pc = "raised"
    /\ Len(inv.calls) = MaxRetries * NumClients
    /\ inv.calls[1].outcome # inv.calls[Len(inv.calls)].outcome

\* C14: a definitive RPC error answering send_transaction is the end of the
\* invocation: no other client and no further cycle is tried after it.
C14_NonIdempotentFailsFast ==
    (InvStarted /\ inv.op = "send_transaction")
        => \A i \in 1..Len(inv.calls) :
              inv.calls[i].outcome = "send_rpc_error"
                  => /\ i = Len(inv.calls)
                     /\ inv.pc = "raised"

(***************************************************************************)
(* Properties of get_token_price                                           *)
(***************************************************************************)
Returned == mresult.kind \in {"hit", "fetched"}

\* C6: every record get_token_price returns, fetched or cached, has
\* price > 0 and 0 <= confidence <= 1, and no record with price <= 0 is cached.
C6_ReturnedPricePositive ==
    /\ Returned => /\ mresult.data.price > 0
                   /\ mresult.data.confidence >= 0
                   /\ mresult.data.confidence <= 100
    /\ \A k \in DOMAIN cache : cache[k].data.price > 0

\* C7 as stated: at a cache hit at time t the record's own timestamp is
\* less than the TTL old.
C7_HitWithinTtlOfRecordTimestamp ==
    mresult.kind = "hit" => mresult.at - mresult.data.timestamp < cache_ttl

\* C7 as amended: at a cache hit at time t the entry was put into the cache
\* less than the TTL ago.
C7_HitWithinTtlOfInsertion ==
    mresult.kind = "hit" => mresult.at - mresult.inserted < cache_ttl

\* C7 witness: a hit served some time after the entry was cached
C7_Witness ==
    /\ mresult.kind = "hit"
    /\ mresult.at - mresult.inserted > 0

\* C8: when every source tried failed, get_token_price raises the
\* all-sources-failed error and the cache is what it was before the call.
C8_AllFailLeavesCache ==
    /\ mresult.kind = "error" => cache = mresult.before
    /\ mcall.pc = "fetching" => cache = mcall.before

\* C8 witness: a call that tried several sources in vain, over a cache that
\* holds an (expired) entry for the symbol
C8_Witness ==
    /\ mresult.kind = "error"
    /\ mresult.symbol \in DOMAIN cache
    /\ mcall.pc = "idle"

\* the sources of seq have strictly descending priorities
Descending(seq) ==
    \A i, j \in 1..Len(seq) :
        i < j => source_priorities(seq[i]) > source_priorities(seq[j])

\* the contacted sources are the best of the requested ones, best first
BestFirst(call) ==
    /\ Descending(call.contacted)
    /\ Range(call.contacted) \subseteq Range(call.requested)
    /\ \A s \in Range(call.requested) \ Range(call.contacted) :
          \A c \in Range(call.contacted) :
              source_priorities(s) < source_priorities(c)

\* C15: on a cache miss the requested sources are contacted in strictly
\* descending priority order and the record of the first one that yields a
\* record is returned; no lower-priority source is contacted after it (with
\* [jupiter, coingecko] and Jupiter answering, only Jupiter is contacted).
C15_DescendingPriorityFirstRecord ==
    /\ mcall.pc = "fetching" => BestFirst(mcall)
    /\ mresult.kind = "fetched"
          => /\ BestFirst(mresult)
             /\ Len(mresult.contacted) >= 1
             /\ mresult.data.source = mresult.contacted[Len(mresult.contacted)]
             /\ mresult.data.source = "jupiter"
                   => mresult.contacted = <<"jupiter">>
    /\ mresult.kind = "error"
          => /\ BestFirst(mresult)
             /\ Range(mresult.contacted) = Range(mresult.requested)

\* C15 witness: Jupiter and CoinGecko were requested, CoinGecko named first;
\* Jupiter answered and CoinGecko was not contacted
C15_Witness ==
    /\ mresult.kind = "fetched"
    /\ mresult.requested = <<"coingecko", "jupiter">>
    /\ mresult.contacted = <<"jupiter">>
    /\ mresult.data.source = "jupiter"

InsertedAt(res) == IF res.kind = "hit" THEN res.inserted ELSE res.at

TokenSlotFailed(i) == overview.prices[i].type = "MarketDataError"
DexSlotFailed(i) == overview.dex_data[i].type = "MarketDataError"

\* C17: get_market_overview always returns exactly four token entries (SOL,
\* USDC, RAY, ORCA) and three DEX entries (raydium, orca, jupiter), whatever
\* slots fail; a failing slot never makes the overview fail.
C17_OverviewHasAllSlots ==
    overview.pc = "done"
        => /\ overview.result.kind = "overview"
           /\ DOMAIN overview.result.tokens = {"SOL", "USDC", "RAY", "ORCA"}
           /\ Cardinality(DOMAIN overview.result.tokens) = 4
           /\ DOMAIN overview.result.dexes = {"raydium", "orca", "jupiter"}
           /\ Cardinality(DOMAIN overview.result.dexes) = 3

\* C17 witness: an overview returned although every slot failed
C17_Witness ==
    /\ overview.pc = "done"
    /\ \A i \in 1..Len(major_tokens) : TokenSlotFailed(i)
    /\ \A i \in 1..Len(dex_names) : DexSlotFailed(i)

\* C18: in the overview a slot holds an {error: ...} entry if and only if
\* that slot's fetch failed; a token whose get_token_price succeeded appears
\* with its price data, a DEX whose get_dex_data succeeded with its tvl data.
C18_ErrorEntryIffSlotFailed ==
    (overview.pc = "done" /\ overview.result.kind = "overview")
        => /\ \A i \in 1..Len(major_tokens) :
                LET entry == overview.result.tokens[major_tokens[i]] IN
                /\ ("error" \in DOMAIN entry) <=> TokenSlotFailed(i)
                /\ ~TokenSlotFailed(i)
                      => /\ "price" \in DOMAIN entry
                         /\ entry.price = overview.prices[i].value.price
           /\ \A i \in 1..Len(dex_names) :
                LET entry == overview.result.dexes[dex_names[i]] IN
                /\ ("error" \in DOMAIN entry) <=> DexSlotFailed(i)
                /\ ~DexSlotFailed(i)
                      => /\ "tvl" \in DOMAIN entry
                         /\ entry.tvl = overview.dex_data[i].value.tvl

\* C21: a join_swarm made while a round is in flight does not change who
\* votes in it: from the start of the round to its return the list of
\* peers the round asks, one vote each, stays the one it started with.
C21_PeerListFixedDuringRound ==
    [][(round.status = "collecting" /\ round'.status = "collecting")
        => round'.iter = round.iter]_vars

\* the votes of an outcome taken in another order of arrival
Permuted(votes, perm) == [i \in 1..Len(votes) |-> votes[perm[i]]]

\* C22: the aggregation depends on the multiset of votes only: for the
\* thresholds of the proposer, every order of the votes of an outcome gives
\* the consensus, approval_rate and total_votes that the outcome reports.
C22_AggregationIgnoresOrder ==
    result.kind = "outcome" =>
        \A perm \in Permutations(1..Len(result.votes)) :
            LET again == Outcome(result.proposer,
                                 Permuted(result.votes, perm),
                                 result.asked, result.evals)
            IN  /\ again.consensus = result.consensus
                /\ RateEq(again.approval_rate, result.approval_rate)
                /\ again.total_votes = result.total_votes

\* C22 witness: an outcome of two votes with different decisions, the
\* approval coming second
C22_Witness ==
    /\ result.kind = "outcome"
    /\ Len(result.votes) = 2
    /\ result.votes[1].decision # "approve"
    /\ result.votes[2].decision = "approve"

\* C25: cleanup of an initialized agent leaves it not initialized, not
\* running and without peers (a second cleanup then changes nothing).
C25_CleanupResetsAgent ==
    [][\A a \in Agents :
         (is_initialized[a] /\ cleanup(a))
           => /\ ~is_initialized'[a]
              /\ ~is_running'[a]
              /\ swarm_peers'[a] = <<>>]_vars

C27_TokenBalanceFromAnsweredQuery ==
    (inv.pc = "returned" /\ inv.op = "get_token_balance") =>
        inv.calls[Len(inv.calls)].outcome = "token_ok"

(***************************************************************************)
(* Properties of health_check, the guardian and the Jupiter client         *)
(***************************************************************************)
\* C26: two get_health probes are never issued less than
\* health_check_interval apart, whatever the earlier probe's outcome.
C26_OneProbePerInterval ==
    \A i, j \in 1..Len(health.probes) :
        i < j => health.probes[j] - health.probes[i] >= health_check_interval

\* C23: in a step taken while simulation_mode is true no strategy becomes
\* 'executed', an execution reports 'simulated' (or the error of having no
\* strategy), and the guardian has issued no gateway write.
C23_SimulationNeverExecutes ==
    [][guardian.settings.simulation_mode =>
        /\ \A i \in 1..Len(guardian'.active_strategies) :
              guardian'.active_strategies[i].status = "executed"
                => /\ i <= Len(guardian.active_strategies)
                   /\ guardian.active_strategies[i].status = "executed"
        /\ (guardian' # guardian /\ guardian'.result.kind = "execute")
              => guardian'.result.status \in {"simulated", "error"}
        /\ guardian'.rpc_calls \cap WriteMethods = {}]_vars

\* C23 witness: in simulation mode the emergency path ran execute_strategy
\* and the strategy is marked simulated
C23_Witness ==
    /\ guardian.settings.simulation_mode
    /\ guardian.result.kind = "execute"
    /\ guardian.result.path = "emergency"
    /\ guardian.result.status = "simulated"
    /\ guardian.active_strategies[guardian.result.target].status = "simulated"

\* C24: a strategy executed by the emergency path was preceded by an
\* exit proposal put to the swarm whose outcome had consensus.
C24_EmergencyExitHadConsensus ==
    (/\ guardian.result.kind = "execute"
     /\ guardian.result.path = "emergency"
     /\ guardian.result.status = "executed")
      => \E c \in guardian.agent_calls :
            /\ c.method = "propose_action"
            /\ c.operation_type = "exit"
            /\ c.consensus

\* the sessions created so far that are closed
ClosedSessions(j) == {i \in 1..Len(j.sessions) : j.sessions[i] = "closed"}

\* C28: the session attribute changes only to install a new open session
\* in place of none or of a closed one; _ensure_session keeps a usable
\* session and otherwise installs a new one, distinct from every earlier
\* session; close leaves the session it found closed; a closed session
\* stays closed.
C28_SessionLifecycle ==
    [][/\ jupiter'.session # jupiter.session
            => /\ ~SessionUsable(jupiter)
               /\ jupiter'.session > Len(jupiter.sessions)
               /\ SessionUsable(jupiter')
       /\ ensure_session
            => /\ SessionUsable(jupiter')
               /\ SessionUsable(jupiter) => jupiter'.session = jupiter.session
               /\ ~SessionUsable(jupiter)
                    => jupiter'.session \notin 0..Len(jupiter.sessions)
       /\ close
            => /\ jupiter'.session = jupiter.session
               /\ ~SessionUsable(jupiter')
       /\ ClosedSessions(jupiter) \subseteq ClosedSessions(jupiter')]_vars

\* C28 witness: a session was closed and _ensure_session has installed a
\* second, open one
C28_Witness ==
    /\ Len(jupiter.sessions) >= 2
    /\ jupiter.sessions[1] = "closed"
    /\ jupiter.session = 2
    /\ SessionUsable(jupiter)

QuoteFinished == jupiter.quote.pc \in {"returned", "raised"}

OnlyFailures(q) ==
    \A i \in 1..Len(q.attempts) : q.attempts[i] \in {"non200", "client_error"}

\* C29: get_quote returns only after an attempt answered 200; it never
\* makes more than max_retries attempts; when every attempt got a non-200
\* status or a network error it raises JupiterError, for max_retries 0 too.
C29_QuoteNeeds200 ==
    LET q == jupiter.quote IN
    q.pc # "idle" =>
        /\ Len(q.attempts) <= q.max_retries
        /\ q.pc = "returned"
              => /\ q.attempts # <<>>
                 /\ q.attempts[Len(q.attempts)] = "200"
        /\ (QuoteFinished /\ OnlyFailures(q))
              => /\ q.pc = "raised"
                 /\ q.error = "JupiterError"

\* C29 witness: two attempts, a non-200 answer and a network error, used
\* up max_retries and JupiterError was raised
C29_Witness ==
    /\ jupiter.quote.pc = "raised"
    /\ jupiter.quote.max_retries = 2
    /\ jupiter.quote.attempts = <<"non200", "client_error">>
    /\ jupiter.quote.error = "JupiterError"

(***************************************************************************)
(* Properties of the ConsensusManager                                      *)
(***************************************************************************)
RECURSIVE SumIf(_, _)
SumIf(vs, ds) ==
    IF vs = <<>> THEN 0
    ELSE (IF vs[1].decision \in ds THEN vs[1].confidence ELSE 0)
         + SumIf(Tail(vs), ds)

CountIf(vs, ds) == Cardinality({i \in 1..Len(vs) : vs[i].decision \in ds})

\* the confidence-weighted approval rate of the votes, approvals being ds
WeightedOf(vs, ds) ==
    IF SumConf(vs) = 0 THEN [num |-> 0, den |-> 1]
    ELSE [num |-> SumIf(vs, ds), den |-> SumConf(vs)]

\* C31: reach_consensus reports consensus exactly when the
\* confidence-weighted approval rate of the votes is >= min_confidence and
\* the number of approving votes is >= min_votes.
C31_ReachConsensusIff ==
    manager.result.kind = "consensus" =>
        (manager.result.consensus <=>
            /\ RateGE(WeightedOf(manager.result.votes, {"True"}),
                      manager.min_confidence)
            /\ CountIf(manager.result.votes, {"True"}) >= manager.min_votes)

\* C32: collect_votes returns and stores one vote per agent asked, in
\* order; an agent whose evaluate_proposal raised has a reject vote of
\* confidence 0.
C32_OneVotePerAgentAsked ==
    manager.result.kind = "votes" =>
        LET votes == manager.votes[manager.result.id] IN
        /\ manager.result.votes = votes
        /\ Len(votes) = Len(manager.asked)
        /\ \A i \in 1..Len(votes) :
              /\ votes[i].agent_id = manager.asked[i]
              /\ manager.escaped[i]
                    => votes[i].decision = "reject" /\ votes[i].confidence = 0

\* C38: in the rate reach_consensus computes from collected votes the
\* numerator is the confidence of the agents that answered approve; a
\* reject or abstain vote counts in the denominator only.
C38_OnlyApprovalsInNumerator ==
    (/\ manager.result.kind = "consensus"
     /\ manager.result.reason = "none"
     /\ manager.known # {}) =>
        RateEq(manager.result.approval_rate,
               WeightedOf(manager.result.votes, {"approve"}))

(***************************************************************************)
(* Properties of the retry backoff                                         *)
(***************************************************************************)
\* C33: after cycle k in which every client failed the gateway sleeps
\* 2^k seconds: while it sleeps it is not at a client invocation, and every
\* RPC call of cycle k+1 is at least 2^k seconds later than every RPC call
\* of cycle k.
C33_BackoffSchedule ==
    InvStarted =>
    LET n == Len(inv.log) IN
    /\ inv.pc = "backoff" =>
          /\ Len(inv.calls) = (inv.attempt + 1) * (NumBackups + 1)
          /\ inv.log[n].cycle = inv.attempt
          /\ inv.wake = inv.log[n].at + Pow2(inv.attempt) * TicksPerSec
    /\ \A j \in 2..n :
          /\ inv.log[j].at >= inv.log[j - 1].at
          /\ inv.log[j].cycle \in {inv.log[j - 1].cycle,
                                    inv.log[j - 1].cycle + 1}
          /\ inv.log[j].cycle = inv.log[j - 1].cycle + 1 =>
                inv.log[j].at >= inv.log[j - 1].at
                                 + Pow2(inv.log[j - 1].cycle) * TicksPerSec
    /\ (/\ inv.pc \in {"rate_limit", "rate_sleep", "call"}
        /\ n > 0 /\ inv.log[n].cycle < inv.attempt) =>
          /\ inv.log[n].cycle = inv.attempt - 1
          /\ now >= inv.log[n].at + Pow2(inv.attempt - 1) * TicksPerSec

\* both sleeps are over and a client of the third cycle was invoked
C33_Witness ==
    InvStarted /\ \E i \in 1..Len(inv.log) : inv.log[i].cycle = MaxRetries - 1

(***************************************************************************)
(* Properties of the swarm over joins, cleanups and restarts               *)
(***************************************************************************)
\* C34: in every state reached by join_swarm and cleanup calls the peer
\* relation is symmetric: b is in a's peer list exactly when a is in b's.
C34_PeerRelationSymmetric ==
    \A a, b \in Agents :
        b \in Range(swarm_peers[a]) <=> a \in Range(swarm_peers[b])

\* C35: an agent can be restarted.  initialize acts only on an agent not
\* marked initialized, so the agent runs again after initialize, cleanup,
\* initialize (and its propose_action and evaluate_proposal no longer
\* answer "not running") exactly if no agent is left not running and still
\* marked initialized.
C35_RestartAfterCleanup ==
    \A a \in Agents : ~is_running[a] => ~is_initialized[a]

(***************************************************************************)
(* Properties of the price cache and the requested sources                 *)
(***************************************************************************)
\* C36: every record get_token_price returns, fetched or served from the
\* cache, has a source that is one of the sources the call requested.
C36_SourceAmongRequested ==
    mresult.kind \in {"fetched", "hit"} =>
        mresult.data.source \in Range(mresult.requested)

\* C36 as amended: a record a call fetches comes from one of the sources
\* the call requested; a cache hit returns the record cached for the
\* symbol, whatever sources the call names.
C36_FetchedAmongRequested ==
    /\ mresult.kind = "fetched" =>
          mresult.data.source \in Range(mresult.requested)
    /\ mresult.kind = "hit" =>
          /\ mresult.symbol \in DOMAIN cache
          /\ mresult.data = cache[mresult.symbol].data
          /\ mresult.data.source \in Sources

\* C36 witness: a call naming Binance alone is served Jupiter's record
\* from the cache
C36_Witness ==
    /\ mresult.kind = "hit"
    /\ mresult.requested = <<"binance">>
    /\ mresult.data.source = "jupiter"

(***************************************************************************)
(* Properties of the guardian's executions                                 *)
(***************************************************************************)
\* C37: a strategy is executed at most once: an execution (direct,
\* automated or emergency) never acts on a strategy that was already
\* executed or simulated before the step.
C37_ExecutedAtMostOnce ==
    [][(/\ guardian'.result.kind = "execute"
        /\ guardian'.result.status # "error"
        /\ guardian'.result.target <= Len(guardian.active_strategies))
          => guardian.active_strategies[guardian'.result.target].status
                = "pending"]_vars

(***************************************************************************)
(* Properties of a swarm without LLMs                                      *)
(***************************************************************************)
NoApproval(votes, evals) ==
    \A i \in 1..Len(votes) :
        /\ votes[i].decision # "approve"
        /\ evals[i] = "ok" => votes[i].confidence = NoLlmConfidence

====
